---- MODULE Spec2Model ----
(***************************************************************************)
(* A model of hotspot-analyzer: glob compilation and path filtering        *)
(* (src/analyzer/git.rs), the history walk (git.rs), the per-file fold and *)
(* the score calculation (src/analyzer/mod.rs).                            *)
(*                                                                         *)
(* Strings are sequences of one-character strings, so that glob_to_regex   *)
(* produces the text of a regular expression and Regex::new parses it.     *)
(***************************************************************************)
EXTENDS Integers, Sequences, FiniteSets, TLC

VARIABLES
    pc,                     \* position of the run
    glob,                   \* a glob string handed to glob_to_regex
    regex,                  \* the Regex compiled from it
    path,                   \* a file path handed to a matcher
    matched,                \* the answer of is_match / should_include_file
    include_patterns,       \* GitRepository.include_patterns (compiled)
    exclude_patterns,       \* GitRepository.exclude_patterns (compiled)
    include_merge_commits,  \* GitRepository.include_merge_commits
    repo_valid,             \* whether the path given to open is a repository
    err,                    \* the AnalyzerError variant returned, or "none"
    visited,                \* commits the revwalk has yielded so far
    cur,                    \* the commit of the current loop iteration
    changed,                \* what get_changed_files returned for it
    commits,                \* the Vec<CommitInfo> built by get_commits_since
    fold_ci,                \* analyze: index of the record being folded
    fold_fi,                \* analyze: index of the path within that record
    file_stats,             \* analyze: HashMap<String, FileStats>
    metrics,                \* analyze: the FileMetrics returned, by path
    objects,                \* what the repository holds for one commit's trees
    history,                \* the commit graph the revwalk traverses
    pending,                \* revwalk: commits queued, not yet yielded
    seen,                   \* revwalk: commits queued so far
    considered,             \* commits that passed the cutoff check
    cli,                    \* the parsed command line (Cli)
    top_hotspots            \* main: the metrics written out

vars == <<pc, glob, regex, path, matched, include_patterns, exclude_patterns,
          include_merge_commits, repo_valid, err, visited, cur, changed,
          commits, fold_ci, fold_fi, file_stats, metrics, objects, history,
          pending, seen, considered, cli, top_hotspots>>

graph_vars == <<history, pending, seen, considered>>
cli_vars == <<cli, top_hotspots>>

----------------------------------------------------------------------------
(* Bounds *)

MaxPathLen == 4      \* longest generated path (glob matching)
MaxPatterns == 2     \* most patterns in an include or exclude list
MaxCommits == 3      \* most commits the revwalk yields
MaxTime == 2         \* commit timestamps are 0..MaxTime
MaxCount == 7        \* largest per-author count handed to into_metrics
MaxRevisions == 10   \* largest revision count handed to into_metrics
MaxTop == 3          \* largest --top handed to main

----------------------------------------------------------------------------
(* Strings *)

RECURSIVE StringsUpTo(_, _)
StringsUpTo(chars, n) ==
    IF n = 0 THEN {<<>>}
    ELSE LET shorter == StringsUpTo(chars, n - 1)
         IN  shorter \cup {Append(s, c) : s \in shorter, c \in chars}

Letters == {"a", "b", "c", "d", "e", "f", "g", "h", "i", "j", "k", "l", "m",
            "n", "o", "p", "q", "r", "s", "t", "u", "v", "w", "x", "y", "z",
            "0", "1", "2", "3", "4", "5", "6", "7", "8", "9"}

\* char::is_alphanumeric, on the characters the model uses
IsAlphanumeric(c) == c \in Letters

\* the characters regex::escape puts a backslash before
RegexMeta == {"\\", ".", "+", "*", "?", "(", ")", "|", "[", "]", "{", "}",
              "^", "$", "#", "&", "-", "~"}

RegexEscape(c) == IF c \in RegexMeta THEN <<"\\", c>> ELSE <<c>>

----------------------------------------------------------------------------
(* glob_to_regex: the text of the regular expression of a glob *)

RECURSIVE GlobLoop(_, _)
GlobLoop(pattern, i) ==
    IF i > Len(pattern) THEN <<>>
    ELSE LET c == pattern[i]
             peek(k) == IF k <= Len(pattern) THEN pattern[k] ELSE "none"
         IN  IF c = "*"
             THEN IF peek(i + 1) = "*"
                  THEN IF peek(i + 2) = "/"
                       THEN <<".", "*", "/">> \o GlobLoop(pattern, i + 3)
                       ELSE <<".", "*">> \o GlobLoop(pattern, i + 2)
                  ELSE <<"[", "^", "/", "]", "*">> \o GlobLoop(pattern, i + 1)
             ELSE IF c = "?" THEN <<".">> \o GlobLoop(pattern, i + 1)
             ELSE IF c = "." THEN <<"\\", ".">> \o GlobLoop(pattern, i + 1)
             ELSE IF c = "/" THEN <<"/">> \o GlobLoop(pattern, i + 1)
             ELSE IF IsAlphanumeric(c) THEN <<c>> \o GlobLoop(pattern, i + 1)
             ELSE RegexEscape(c) \o GlobLoop(pattern, i + 1)

\* a plausible slip: the closing anchor is not pushed
glob_to_regex_unanchored(pattern) == <<"^">> \o GlobLoop(pattern, 1)

glob_to_regex(pattern) == <<"^">> \o GlobLoop(pattern, 1) \o <<"$">>

----------------------------------------------------------------------------
(* Regex::new and Regex::is_match, for the syntax glob_to_regex emits:     *)
(* ^  $  .  .*  [^/]*  \c  and literal characters.  A compiled regex is a  *)
(* sequence of items; is_match searches for a match anywhere in the text.  *)

RECURSIVE RegexParse(_, _)
RegexParse(text, i) ==
    IF i > Len(text) THEN <<>>
    ELSE LET c == text[i]
             at(k) == IF k <= Len(text) THEN text[k] ELSE "none"
         IN  IF c = "^" THEN <<[k |-> "bol"]>> \o RegexParse(text, i + 1)
             ELSE IF c = "$" THEN <<[k |-> "eol"]>> \o RegexParse(text, i + 1)
             ELSE IF c = "."
             THEN IF at(i + 1) = "*"
                  THEN <<[k |-> "any", star |-> TRUE]>> \o RegexParse(text, i + 2)
                  ELSE <<[k |-> "any", star |-> FALSE]>> \o RegexParse(text, i + 1)
             ELSE IF c = "[" /\ at(i + 1) = "^" /\ at(i + 2) = "/" /\ at(i + 3) = "]"
             THEN IF at(i + 4) = "*"
                  THEN <<[k |-> "notslash", star |-> TRUE]>> \o RegexParse(text, i + 5)
                  ELSE <<[k |-> "notslash", star |-> FALSE]>> \o RegexParse(text, i + 4)
             ELSE IF c = "\\" /\ i + 1 <= Len(text)
             THEN <<[k |-> "lit", c |-> text[i + 1], star |-> FALSE]>>
                      \o RegexParse(text, i + 2)
             ELSE IF c \in RegexMeta
             THEN <<[k |-> "invalid"]>>
             ELSE <<[k |-> "lit", c |-> c, star |-> FALSE]>> \o RegexParse(text, i + 1)

\* Regex::new(text): the compiled items; a syntax error leaves an "invalid" item
RegexNew(text) == RegexParse(text, 1)

\* Regex::new(text).is_err()
IsInvalid(re) == \E n \in 1..Len(re) : re[n].k = "invalid"

\* whether one item's class accepts one character ('.' is any but a newline)
ItemAccepts(item, c) ==
    CASE item.k = "any" -> c # "\n"
      [] item.k = "notslash" -> c # "/"
      [] item.k = "lit" -> c = item.c
      [] OTHER -> FALSE

RECURSIVE MatchFrom(_, _, _, _)
MatchFrom(re, k, text, j) ==
    IF k > Len(re) THEN TRUE
    ELSE LET item == re[k]
         IN  CASE item.k = "bol" -> j = 1 /\ MatchFrom(re, k + 1, text, j)
               [] item.k = "eol" -> j = Len(text) + 1 /\ MatchFrom(re, k + 1, text, j)
               [] OTHER ->
                    IF item.star
                    THEN \E n \in 0..(Len(text) + 1 - j) :
                            /\ \A m \in j..(j + n - 1) : ItemAccepts(item, text[m])
                            /\ MatchFrom(re, k + 1, text, j + n)
                    ELSE /\ j <= Len(text)
                         /\ ItemAccepts(item, text[j])
                         /\ MatchFrom(re, k + 1, text, j + 1)

\* Regex::is_match: a match starting at any position of the text
is_match(re, text) == \E start \in 1..(Len(text) + 1) : MatchFrom(re, 1, text, start)

----------------------------------------------------------------------------
(* GitRepository::should_include_file, on compiled pattern lists *)

AnyMatch(patterns, file_path) ==
    \E n \in 1..Len(patterns) : is_match(patterns[n], file_path)

\* a plausible slip: the include list is consulted before the exclude list
should_include_file_include_first(inc, exc, file_path) ==
    IF inc = <<>> \/ AnyMatch(inc, file_path) THEN TRUE
    ELSE ~AnyMatch(exc, file_path)

should_include_file(inc, exc, file_path) ==
    IF AnyMatch(exc, file_path) THEN FALSE
    ELSE IF inc = <<>> THEN TRUE
    ELSE AnyMatch(inc, file_path)

\* open's  into_iter().map(|p| Regex::new(&glob_to_regex(&p))).collect()
CompileAll(globs) == [n \in 1..Len(globs) |-> RegexNew(glob_to_regex(globs[n]))]

\* collect::<Result<Vec<_>, _>>() is Ok
AllCompiled(patterns) == \A n \in 1..Len(patterns) : ~IsInvalid(patterns[n])

----------------------------------------------------------------------------
(* Globs and paths of the repository's tests and defaults *)

GlobStarPy == <<"*", ".", "p", "y">>
GlobStarRs == <<"*", ".", "r", "s">>
GlobDeepJs == <<"*", "*", "/", "*", ".", "j", "s">>
GlobDeepRs == <<"*", "*", "/", "*", ".", "r", "s">>
GlobSrcRs == <<"s", "r", "c", "/", "*", ".", "r", "s">>
GlobTargetAll == <<"t", "a", "r", "g", "e", "t", "/", "*", "*">>
GlobAnyTxt == <<"*", "*", ".", "t", "x", "t">>
GlobAlt == <<"d", "o", "c", "/", "(", "a", "|", "b", ")", ".", "m", "d">>
GlobQuestion == <<"?", ".", "p", "y">>

GlobFixtures == {GlobStarPy, GlobStarRs, GlobDeepJs, GlobDeepRs, GlobSrcRs,
                 GlobTargetAll, GlobAnyTxt, GlobAlt, GlobQuestion}

PathAPy == <<"a", ".", "p", "y">>
PathAPyBak == <<"a", ".", "p", "y", ".", "b", "a", "k">>
PathDirAPy == <<"d", "i", "r", "/", "a", ".", "p", "y">>
PathXJs == <<"x", ".", "j", "s">>
PathAXJs == <<"a", "/", "x", ".", "j", "s">>
PathABXJs == <<"a", "/", "b", "/", "x", ".", "j", "s">>
PathTargetXRs == <<"t", "a", "r", "g", "e", "t", "/", "d", "e", "b", "u", "g",
                   "/", "x", ".", "r", "s">>
PathSrcMainRs == <<"s", "r", "c", "/", "m", "a", "i", "n", ".", "r", "s">>
PathMainRs == <<"m", "a", "i", "n", ".", "r", "s">>
PathDocAMd == <<"d", "o", "c", "/", "a", ".", "m", "d">>

PathFixtures == {PathAPy, PathAPyBak, PathDirAPy, PathXJs, PathAXJs, PathABXJs,
                 PathTargetXRs, PathSrcMainRs, PathMainRs, PathDocAMd}

PathChars == {"a", "/", ".", "p", "y"}

GlobPaths == PathFixtures \cup StringsUpTo(PathChars, MaxPathLen)

RECURSIVE SeqsUpTo(_, _)
SeqsUpTo(S, n) ==
    IF n = 0 THEN {<<>>}
    ELSE LET shorter == SeqsUpTo(S, n - 1)
         IN  shorter \cup {Append(q, x) : q \in shorter, x \in S}

FilterGlobs == {GlobStarPy, GlobDeepRs, GlobTargetAll, GlobDeepJs}

FilterGlobLists == SeqsUpTo(FilterGlobs, MaxPatterns)

NoCommit == [time |-> -1, parent_count |-> 0, author |-> "none"]

\* the walk and the fold have not started
NoWalk ==
    /\ visited = 0 /\ cur = NoCommit /\ changed = <<>> /\ commits = <<>>
    /\ fold_ci = 1 /\ fold_fi = 1 /\ file_stats = <<>> /\ metrics = <<>>

NoObjects == [tree |-> [ok |-> FALSE], parents |-> <<>>, diff_ok |-> FALSE]

\* no commit graph is given: the revwalk yields commits one by one
NoHistory ==
    /\ history = <<>> /\ pending = {} /\ seen = {} /\ considered = {}

\* Option<Vec<String>>
None == [some |-> FALSE, patterns |-> <<>>]
Some(v) == [some |-> TRUE, patterns |-> v]

NoCli == [top |-> 0, format |-> "json",
          include_patterns |-> None, exclude_patterns |-> None,
          no_default_includes |-> FALSE, no_default_excludes |-> FALSE,
          include_merges |-> FALSE]

\* the library is used without the command line
NoMain == cli = NoCli /\ top_hotspots = <<>>

----------------------------------------------------------------------------
(* Glob matching as a function of its inputs: one glob, one path *)

InitGlob ==
    /\ pc = "glob"
    /\ glob \in GlobFixtures
    /\ path \in GlobPaths
    /\ regex = <<>> /\ matched = FALSE
    /\ include_patterns = <<>> /\ exclude_patterns = <<>>
    /\ include_merge_commits = FALSE /\ repo_valid = TRUE /\ err = "none"
    /\ NoWalk /\ objects = NoObjects /\ NoHistory /\ NoMain

\* Regex::new(&glob_to_regex(&p))
GlobCompile ==
    /\ pc = "glob"
    /\ regex' = RegexNew(glob_to_regex(glob))
    /\ pc' = "compiled"
    /\ UNCHANGED <<glob, path, matched, include_patterns, exclude_patterns,
                   include_merge_commits, repo_valid, err, visited, cur, changed,
                   commits, fold_ci, fold_fi, file_stats, metrics,
                   objects, graph_vars, cli_vars>>

\* pattern.is_match(file_path)
GlobMatch ==
    /\ pc = "compiled"
    /\ ~IsInvalid(regex)
    /\ matched' = is_match(regex, path)
    /\ pc' = "matched"
    /\ UNCHANGED <<glob, regex, path, include_patterns, exclude_patterns,
                   include_merge_commits, repo_valid, err, visited, cur, changed,
                   commits, fold_ci, fold_fi, file_stats, metrics,
                   objects, graph_vars, cli_vars>>

NextGlob == GlobCompile \/ GlobMatch

SpecGlob == InitGlob /\ [][NextGlob]_vars

----------------------------------------------------------------------------
(* should_include_file as a function of its inputs: a GitRepository with   *)
(* compiled pattern lists (as the unit tests build it) and one path        *)

InitFilter ==
    /\ pc = "filter"
    /\ glob = <<>> /\ regex = <<>> /\ matched = FALSE
    /\ path \in PathFixtures
    /\ \E inc \in FilterGlobLists : include_patterns = CompileAll(inc)
    /\ \E exc \in FilterGlobLists : exclude_patterns = CompileAll(exc)
    /\ include_merge_commits = FALSE /\ repo_valid = TRUE /\ err = "none"
    /\ NoWalk /\ objects = NoObjects /\ NoHistory /\ NoMain

FilterPath ==
    /\ pc = "filter"
    /\ matched' = should_include_file(include_patterns, exclude_patterns, path)
    /\ pc' = "filtered"
    /\ UNCHANGED <<glob, regex, path, include_patterns, exclude_patterns,
                   include_merge_commits, repo_valid, err, visited, cur, changed,
                   commits, fold_ci, fold_fi, file_stats, metrics,
                   objects, graph_vars, cli_vars>>

NextFilter == FilterPath

SpecFilter == InitFilter /\ [][NextFilter]_vars

----------------------------------------------------------------------------
(* The repository as libgit2 presents it.  A tree maps each path to its    *)
(* entry; a commit carries a timestamp, its parents and an author name.    *)

FileA == <<"a", ".", "r", "s">>
FileB == <<"b", ".", "m", "d">>
Files == {FileA, FileB}
FileOrder == <<FileA, FileB>>       \* deltas come sorted by path

EntriesOf(f) == IF f = FileA THEN {"absent", "blob1", "blob2", "link"}
                ELSE {"absent", "blob1"}

Trees == {t \in [Files -> {"absent", "blob1", "blob2", "link"}] :
             \A f \in Files : t[f] \in EntriesOf(f)}

EmptyTree == [f \in Files |-> "absent"]

\* the result of loading a tree: Ok(tree) or Err
TreeResults == {[ok |-> TRUE, tree |-> t] : t \in Trees}
                   \cup {[ok |-> FALSE, tree |-> EmptyTree]}

EntryType(e) == IF e = "link" THEN "link" ELSE "blob"

\* the deltas libgit2 reports for one path.  Without INCLUDE_TYPECHANGE a
\* change of type is reported as a DELETED and an ADDED delta of that path.
DeltasFor(f, old, new) ==
    IF old = new THEN <<>>
    ELSE IF old = "absent" THEN <<[status |-> "added", new_file |-> f]>>
    ELSE IF new = "absent" THEN <<[status |-> "deleted", new_file |-> f]>>
    ELSE IF EntryType(old) # EntryType(new)
    THEN <<[status |-> "deleted", new_file |-> f], [status |-> "added", new_file |-> f]>>
    ELSE <<[status |-> "modified", new_file |-> f]>>

RECURSIVE DiffFrom(_, _, _)
DiffFrom(old, new, n) ==
    IF n > Len(FileOrder) THEN <<>>
    ELSE DeltasFor(FileOrder[n], old[FileOrder[n]], new[FileOrder[n]])
             \o DiffFrom(old, new, n + 1)

\* Repository::diff_tree_to_tree(old, Some(new), None).deltas()
diff_tree_to_tree(old, new) == DiffFrom(old, new, 1)

\* a plausible slip: the diff is taken against the last parent, not the first
get_changed_files_last_parent(commit) ==
    IF ~commit.tree.ok THEN [ok |-> FALSE, files |-> <<>>]
    ELSE LET last == Len(commit.parents)
             parent_tree == IF last >= 1 /\ commit.parents[last].ok
                            THEN commit.parents[last].tree ELSE EmptyTree
         IN  IF ~commit.diff_ok THEN [ok |-> FALSE, files |-> <<>>]
             ELSE LET deltas == diff_tree_to_tree(parent_tree, commit.tree.tree)
                  IN  [ok |-> TRUE,
                       files |-> [k \in 1..Len(deltas) |-> deltas[k].new_file]]

\* GitRepository::get_changed_files.  commit.parent(0).ok().and_then(|p|
\* p.tree().ok()) turns a parent that cannot be loaded into no parent tree.
get_changed_files(commit) ==
    IF ~commit.tree.ok THEN [ok |-> FALSE, files |-> <<>>]
    ELSE LET parent_tree == IF Len(commit.parents) >= 1 /\ commit.parents[1].ok
                            THEN commit.parents[1].tree ELSE EmptyTree
         IN  IF ~commit.diff_ok THEN [ok |-> FALSE, files |-> <<>>]
             ELSE LET deltas == diff_tree_to_tree(parent_tree, commit.tree.tree)
                  IN  [ok |-> TRUE,
                       files |-> [k \in 1..Len(deltas) |-> deltas[k].new_file]]

Since == 1                          \* analyze: Utc::now() - Duration::days(..)
Times == 0..MaxTime

NoName == "<no name>"               \* commit.author().name() is None
AuthorInputs == {"alice", "unknown", NoName}

\* a plausible slip: an absent name becomes the empty name
AuthorOfEmpty(name) == IF name = NoName THEN "" ELSE name

\* commit.author().name().unwrap_or("unknown")
AuthorOf(name) == IF name = NoName THEN "unknown" ELSE name

\* a plausible slip: the cutoff instant itself is skipped too
TooOldInclusive(commit_time, since) == commit_time <= since

\* commit_time < since
TooOld(commit_time, since) == commit_time < since

\* a plausible slip: only commits with more than two parents are skipped
SkippedAsMergeOctopus(merges, parent_count) == ~merges /\ parent_count > 2

\* !self.include_merge_commits && commit.parent_count() > 1
SkippedAsMerge(merges, parent_count) == ~merges /\ parent_count > 1

\* a plausible slip: opening maps the failure to InvalidRepository
RepositoryOpenErrorInvalid == "InvalidRepository"

\* Repository::open(path)?  converts git2::Error with #[from]
RepositoryOpenError == "GitError"

----------------------------------------------------------------------------
(* FileStats and the fold of analyze *)

EmptyCounts == [a \in {} |-> 0]

DefaultStats == [revisions |-> 0, authors |-> {}, author_commits |-> EmptyCounts]

\* a plausible slip: the two counters are mixed up, and the revision count is
\* set from the author's own count
FoldUpdateMixedCounters(fs, author, file_path) ==
    LET stats == IF file_path \in DOMAIN fs THEN fs[file_path] ELSE DefaultStats
        count == IF author \in DOMAIN stats.author_commits
                 THEN stats.author_commits[author] ELSE 0
        updated == [revisions |-> count + 1,
                    authors |-> stats.authors \cup {author},
                    author_commits |->
                        [a \in DOMAIN stats.author_commits \cup {author} |->
                            IF a = author THEN count + 1 ELSE stats.author_commits[a]]]
    IN  [p \in DOMAIN fs \cup {file_path} |-> IF p = file_path THEN updated ELSE fs[p]]

\* the body of analyze's inner loop, for one path of one record
FoldUpdate(fs, author, file_path) ==
    LET stats == IF file_path \in DOMAIN fs THEN fs[file_path] ELSE DefaultStats
        count == IF author \in DOMAIN stats.author_commits
                 THEN stats.author_commits[author] ELSE 0
        updated == [revisions |-> stats.revisions + 1,
                    authors |-> stats.authors \cup {author},
                    author_commits |->
                        [a \in DOMAIN stats.author_commits \cup {author} |->
                            IF a = author THEN count + 1 ELSE stats.author_commits[a]]]
    IN  [p \in DOMAIN fs \cup {file_path} |-> IF p = file_path THEN updated ELSE fs[p]]

----------------------------------------------------------------------------
(* Numbers.  f64 values are modelled by the real numbers they approximate: *)
(* a rational is <<numerator, denominator>> in lowest terms, and a score   *)
(* coef * sqrt(rad) is kept with rad square-free.                          *)

RECURSIVE GCD(_, _)
GCD(a, b) == IF b = 0 THEN a ELSE GCD(b, a % b)

Abs(x) == IF x < 0 THEN -x ELSE x

Rat(n, d) ==
    LET g == GCD(Abs(n), Abs(d))
        sign == IF d < 0 THEN -1 ELSE 1
    IN  <<sign * (n \div g), sign * (d \div g)>>

RatMul(x, y) == Rat(x[1] * y[1], x[2] * y[2])
RatDiv(x, y) == Rat(x[1] * y[2], x[2] * y[1])
RatSub(x, y) == Rat(x[1] * y[2] - y[1] * x[2], x[2] * y[2])
RatInt(n) == <<n, 1>>
RatZero == <<0, 1>>

\* the largest k with k*k dividing n (n >= 1)
SquarePart(n) == CHOOSE k \in 1..n :
                    /\ n % (k * k) = 0
                    /\ \A j \in (k + 1)..n : n % (j * j) # 0

\* coef * sqrt(rad)
Surd(coef, rad) ==
    IF coef[1] = 0 \/ rad = 0 THEN [coef |-> RatZero, rad |-> 1]
    ELSE LET k == SquarePart(rad)
         IN  [coef |-> RatMul(coef, RatInt(k)), rad |-> rad \div (k * k)]

RECURSIVE SumValues(_, _)
SumValues(f, keys) ==
    IF keys = {} THEN 0
    ELSE LET a == CHOOSE x \in keys : TRUE
         IN  f[a] + SumValues(f, keys \ {a})

RECURSIVE MaxValue(_, _)
MaxValue(f, keys) ==
    IF keys = {} THEN 0
    ELSE LET a == CHOOSE x \in keys : TRUE
             rest == MaxValue(f, keys \ {a})
         IN  IF f[a] > rest THEN f[a] ELSE rest

\* a plausible slip: the share is taken of the revisions, not of the commits counted
into_metrics_by_revisions(stats, file_path) ==
    LET total_commits == SumValues(stats.author_commits, DOMAIN stats.author_commits)
        max_author_commits == MaxValue(stats.author_commits, DOMAIN stats.author_commits)
        percentage == IF total_commits > 0 /\ stats.revisions > 0
                      THEN RatMul(Rat(max_author_commits, stats.revisions), RatInt(100))
                      ELSE RatZero
        distribution == IF total_commits > 0
                        THEN RatSub(RatInt(1), RatDiv(percentage, RatInt(100)))
                        ELSE RatZero
    IN  [path |-> file_path,
         hotspot_score |-> Surd(RatMul(RatInt(stats.revisions), distribution),
                                Cardinality(stats.authors)),
         revisions |-> stats.revisions,
         author_count |-> Cardinality(stats.authors),
         main_contributor_percentage |-> percentage,
         knowledge_distribution |-> distribution]

\* a plausible slip: the knowledge distribution is the main contributor's share
into_metrics_share(stats, file_path) ==
    LET total_commits == SumValues(stats.author_commits, DOMAIN stats.author_commits)
        max_author_commits == MaxValue(stats.author_commits, DOMAIN stats.author_commits)
        percentage == IF total_commits > 0
                      THEN RatMul(Rat(max_author_commits, total_commits), RatInt(100))
                      ELSE RatZero
        distribution == IF total_commits > 0
                        THEN RatDiv(percentage, RatInt(100))
                        ELSE RatZero
    IN  [path |-> file_path,
         hotspot_score |-> Surd(RatMul(RatInt(stats.revisions), distribution),
                                Cardinality(stats.authors)),
         revisions |-> stats.revisions,
         author_count |-> Cardinality(stats.authors),
         main_contributor_percentage |-> percentage,
         knowledge_distribution |-> distribution]

\* FileStats::into_metrics
into_metrics(stats, file_path) ==
    LET total_commits == SumValues(stats.author_commits, DOMAIN stats.author_commits)
        max_author_commits == MaxValue(stats.author_commits, DOMAIN stats.author_commits)
        percentage == IF total_commits > 0
                      THEN RatMul(Rat(max_author_commits, total_commits), RatInt(100))
                      ELSE RatZero
        distribution == IF total_commits > 0
                        THEN RatSub(RatInt(1), RatDiv(percentage, RatInt(100)))
                        ELSE RatZero
    IN  [path |-> file_path,
         hotspot_score |-> Surd(RatMul(RatInt(stats.revisions), distribution),
                                Cardinality(stats.authors)),
         revisions |-> stats.revisions,
         author_count |-> Cardinality(stats.authors),
         main_contributor_percentage |-> percentage,
         knowledge_distribution |-> distribution]

----------------------------------------------------------------------------
(* The run of the analyzer: HotspotAnalyzer::new, then analyze *)

GlobStarMd == <<"*", ".", "m", "d">>

\* the include and exclude globs a run is started with
OpenConfigs == {[include |-> <<>>, exclude |-> <<>>],
                [include |-> <<GlobStarRs>>, exclude |-> <<>>],
                [include |-> <<>>, exclude |-> <<GlobStarMd>>]}

walk_vars == <<visited, cur, changed, commits>>
fold_vars == <<fold_ci, fold_fi, file_stats, metrics>>
glob_vars == <<glob, regex, path, matched>>
repo_vars == <<include_patterns, exclude_patterns, include_merge_commits, repo_valid>>

Init ==
    /\ pc = "start"
    /\ glob = <<>> /\ regex = <<>> /\ path = <<>> /\ matched = FALSE
    /\ include_patterns = <<>> /\ exclude_patterns = <<>>
    /\ include_merge_commits = FALSE
    /\ repo_valid \in BOOLEAN
    /\ err = "none"
    /\ NoWalk /\ objects = NoObjects /\ NoHistory /\ NoMain

\* HotspotAnalyzer::new -> GitRepository::open
Open ==
    /\ pc = "start"
    /\ IF ~repo_valid
       THEN /\ pc' = "failed"
            /\ err' = RepositoryOpenError
            /\ UNCHANGED <<include_patterns, exclude_patterns, include_merge_commits>>
       ELSE \E cfg \in OpenConfigs, merges \in BOOLEAN :
              LET inc == CompileAll(cfg.include)
                  exc == CompileAll(cfg.exclude)
              IN  IF ~AllCompiled(inc) \/ ~AllCompiled(exc)
                  THEN /\ pc' = "failed"
                       /\ err' = "InvalidPattern"
                       /\ UNCHANGED <<include_patterns, exclude_patterns,
                                      include_merge_commits>>
                  ELSE /\ pc' = "opened"
                       /\ err' = "none"
                       /\ include_patterns' = inc
                       /\ exclude_patterns' = exc
                       /\ include_merge_commits' = merges
    /\ UNCHANGED <<glob_vars, repo_valid, walk_vars, fold_vars,
                   objects, graph_vars, cli_vars>>

\* analyze -> get_commits_since: revwalk(), push_head(), set_sorting()
StartWalk ==
    /\ pc = "opened"
    /\ \E ok \in BOOLEAN :
         IF ok THEN pc' = "walk" /\ err' = "none"
         ELSE pc' = "failed" /\ err' = "GitError"
    /\ UNCHANGED <<glob_vars, repo_vars, walk_vars, fold_vars,
                   objects, graph_vars, cli_vars>>

\* for oid in revwalk: the iterator is exhausted, Ok(commits) is returned
WalkEnd ==
    /\ pc = "walk"
    /\ pc' = "fold"
    /\ cur' = NoCommit
    /\ UNCHANGED <<glob_vars, repo_vars, err, visited, changed, commits, fold_vars,
                   objects, graph_vars, cli_vars>>

\* oid?, find_commit(oid)? or the timestamp conversion fails
WalkLoadFail ==
    /\ pc = "walk"
    /\ visited < MaxCommits
    /\ \E e \in {"GitError", "AnalysisError"} : err' = e
    /\ pc' = "failed"
    /\ visited' = visited + 1
    /\ UNCHANGED <<glob_vars, repo_vars, cur, changed, commits, fold_vars,
                   objects, graph_vars, cli_vars>>

\* the revwalk yields a commit and find_commit loads it
WalkLoad ==
    /\ pc = "walk"
    /\ visited < MaxCommits
    /\ \E t \in Times, n \in 0..2, a \in AuthorInputs :
         cur' = [time |-> t, parent_count |-> n, author |-> a]
    /\ pc' = "check"
    /\ visited' = visited + 1
    /\ UNCHANGED <<glob_vars, repo_vars, err, changed, commits, fold_vars,
                   objects, graph_vars, cli_vars>>

\* the cutoff and the merge filter: continue, or go on to the changed files
WalkCheck ==
    /\ pc = "check"
    /\ IF TooOld(cur.time, Since) THEN pc' = "walk"
       ELSE IF SkippedAsMerge(include_merge_commits, cur.parent_count) THEN pc' = "walk"
       ELSE pc' = "diff"
    /\ UNCHANGED <<glob_vars, repo_vars, err, walk_vars, fold_vars,
                   objects, graph_vars, cli_vars>>

\* self.get_changed_files(&commit)?
WalkDiff ==
    /\ pc = "diff"
    /\ \E tr \in TreeResults, prs \in SeqsUpTo(TreeResults, 2), dok \in BOOLEAN :
         /\ Len(prs) = cur.parent_count
         /\ LET r == get_changed_files([tree |-> tr, parents |-> prs, diff_ok |-> dok])
            IN  IF r.ok
                THEN pc' = "record" /\ err' = "none" /\ changed' = r.files
                ELSE pc' = "failed" /\ err' = "GitError" /\ changed' = <<>>
    /\ UNCHANGED <<glob_vars, repo_vars, visited, cur, commits, fold_vars,
                   objects, graph_vars, cli_vars>>

\* a plausible slip: the record is pushed even when the filter leaves no file
WalkRecordAlways ==
    /\ pc = "record"
    /\ LET keep(f) == should_include_file(include_patterns, exclude_patterns, f)
           files == SelectSeq(changed, keep)
       IN  commits' = Append(commits, [author |-> AuthorOf(cur.author),
                                       files |-> files])
    /\ changed' = <<>>
    /\ pc' = "walk"
    /\ UNCHANGED <<glob_vars, repo_vars, err, visited, cur, fold_vars,
                   objects, graph_vars, cli_vars>>

\* .filter(|file_path| self.should_include_file(file_path)), then the push
WalkRecord ==
    /\ pc = "record"
    /\ LET keep(f) == should_include_file(include_patterns, exclude_patterns, f)
           files == SelectSeq(changed, keep)
       IN  IF files # <<>>
           THEN commits' = Append(commits, [author |-> AuthorOf(cur.author),
                                            files |-> files])
           ELSE commits' = commits
    /\ changed' = <<>>
    /\ pc' = "walk"
    /\ UNCHANGED <<glob_vars, repo_vars, err, visited, cur, fold_vars,
                   objects, graph_vars, cli_vars>>

\* analyze: one pass of the inner loop, for commits[fold_ci].files[fold_fi]
FoldStep ==
    /\ pc = "fold"
    /\ fold_ci <= Len(commits)
    /\ LET commit == commits[fold_ci]
       IN  /\ file_stats' = IF fold_fi <= Len(commit.files)
                            THEN FoldUpdate(file_stats, commit.author,
                                            commit.files[fold_fi])
                            ELSE file_stats
           /\ IF fold_fi < Len(commit.files)
              THEN fold_fi' = fold_fi + 1 /\ fold_ci' = fold_ci
              ELSE fold_fi' = 1 /\ fold_ci' = fold_ci + 1
    /\ UNCHANGED <<pc, glob_vars, repo_vars, err, walk_vars, metrics,
                   objects, graph_vars, cli_vars>>

\* analyze: file_stats.into_iter().map(|(path, stats)| stats.into_metrics(path))
Finalize ==
    /\ pc = "fold"
    /\ fold_ci > Len(commits)
    /\ metrics' = [p \in DOMAIN file_stats |-> into_metrics(file_stats[p], p)]
    /\ pc' = "done"
    /\ UNCHANGED <<glob_vars, repo_vars, err, walk_vars, fold_ci, fold_fi, file_stats,
                   objects, graph_vars, cli_vars>>

Next ==
    \/ Open
    \/ StartWalk
    \/ WalkEnd
    \/ WalkLoadFail
    \/ WalkLoad
    \/ WalkCheck
    \/ WalkDiff
    \/ WalkRecord
    \/ FoldStep
    \/ Finalize

Spec == Init /\ [][Next]_vars

----------------------------------------------------------------------------
(* into_metrics as a function of its input: a FileStats built field by     *)
(* field, as the unit tests build it                                       *)

Devs == {"dev1", "dev2", "dev3"}

TestPath == <<"t", "e", "s", "t", ".", "r", "s">>

CountMaps == UNION {[S -> 0..MaxCount] : S \in SUBSET Devs}

InitMetrics ==
    /\ pc = "fold"
    /\ glob = <<>> /\ regex = <<>> /\ path = <<>> /\ matched = FALSE
    /\ include_patterns = <<>> /\ exclude_patterns = <<>>
    /\ include_merge_commits = FALSE /\ repo_valid = TRUE /\ err = "none"
    /\ visited = 0 /\ cur = NoCommit /\ changed = <<>> /\ commits = <<>>
    /\ fold_ci = 1 /\ fold_fi = 1 /\ metrics = <<>>
    /\ objects = NoObjects /\ NoHistory /\ NoMain
    /\ \E counts \in CountMaps, revs \in 0..MaxRevisions :
         file_stats = [p \in {TestPath} |->
                          [revisions |-> revs, authors |-> DOMAIN counts,
                           author_commits |-> counts]]

NextMetrics == Finalize

SpecMetrics == InitMetrics /\ [][NextMetrics]_vars

----------------------------------------------------------------------------
(* get_changed_files as a function of its input: one accepted commit of    *)
(* the walk, with what the repository holds for its tree, for its parents  *)
(* (a parent that cannot be loaded, or whose tree cannot, is not ok) and   *)
(* for the diff                                                            *)

InitDiff ==
    /\ pc = "diff"
    /\ glob = <<>> /\ regex = <<>> /\ path = <<>> /\ matched = FALSE
    /\ include_patterns = <<>> /\ exclude_patterns = <<>>
    /\ include_merge_commits = TRUE /\ repo_valid = TRUE /\ err = "none"
    /\ visited = 1 /\ changed = <<>> /\ commits = <<>>
    /\ fold_ci = 1 /\ fold_fi = 1 /\ file_stats = <<>> /\ metrics = <<>>
    /\ \E tr \in TreeResults, prs \in SeqsUpTo(TreeResults, 2), dok \in BOOLEAN :
         objects = [tree |-> tr, parents |-> prs, diff_ok |-> dok]
    /\ cur = [time |-> Since, parent_count |-> Len(objects.parents),
              author |-> "alice"]
    /\ NoHistory /\ NoMain

\* self.get_changed_files(&commit)?  on the commit given
DiffCommit ==
    /\ pc = "diff"
    /\ LET r == get_changed_files(objects)
       IN  IF r.ok
           THEN pc' = "record" /\ err' = "none" /\ changed' = r.files
           ELSE pc' = "failed" /\ err' = "GitError" /\ changed' = <<>>
    /\ UNCHANGED <<glob_vars, repo_vars, visited, cur, commits, fold_vars,
                   objects, graph_vars, cli_vars>>

NextDiff == DiffCommit \/ WalkRecord

SpecDiff == InitDiff /\ [][NextDiff]_vars

----------------------------------------------------------------------------
(* The command line: main builds the pattern lists from the defaults and   *)
(* the options, and constructs the analyzer with them                      *)

DEFAULT_INCLUDE_PATTERNS ==
    <<<<"*", "*", "/", "*", ".", "r", "s">>,
      <<"*", "*", "/", "*", ".", "g", "o">>,
      <<"*", "*", "/", "*", ".", "j", "s">>,
      <<"*", "*", "/", "*", ".", "t", "s">>,
      <<"*", "*", "/", "*", ".", "p", "y">>,
      <<"*", "*", "/", "*", ".", "j", "a", "v", "a">>,
      <<"*", "*", "/", "*", ".", "c", "p", "p">>,
      <<"*", "*", "/", "*", ".", "h", "p", "p">>,
      <<"*", "*", "/", "*", ".", "c">>,
      <<"*", "*", "/", "*", ".", "h">>>>

DEFAULT_EXCLUDE_PATTERNS ==
    <<<<"*", "*", "/", "t", "a", "r", "g", "e", "t", "/", "*", "*", "/", "*">>,
      <<"*", "*", "/", "n", "o", "d", "e", "_", "m", "o", "d", "u", "l", "e", "s", "/", "*", "*", "/", "*">>,
      <<"*", "*", "/", "d", "i", "s", "t", "/", "*", "*", "/", "*">>,
      <<"*", "*", "/", "b", "u", "i", "l", "d", "/", "*", "*", "/", "*">>,
      <<"*", "*", "/", ".", "g", "i", "t", "/", "*", "*", "/", "*">>,
      <<"*", "*", "/", "v", "e", "n", "d", "o", "r", "/", "*", "*", "/", "*">>,
      <<"*", "*", "/", "*", ".", "m", "i", "n", ".", "*">>,
      <<"*", "*", "/", "t", "e", "s", "t", "/", "*", "*", "/", "*">>,
      <<"*", "*", "/", "t", "e", "s", "t", "s", "/", "*", "*", "/", "*">>,
      <<"t", "e", "s", "t", "/", "*", "*", "/", "*">>,
      <<"t", "e", "s", "t", "s", "/", "*", "*", "/", "*">>>>

\* Cli::get_include_patterns
get_include_patterns(c) ==
    (IF ~c.no_default_includes THEN DEFAULT_INCLUDE_PATTERNS ELSE <<>>)
        \o (IF c.include_patterns.some THEN c.include_patterns.patterns ELSE <<>>)

\* Cli::get_exclude_patterns
get_exclude_patterns(c) ==
    (IF ~c.no_default_excludes THEN DEFAULT_EXCLUDE_PATTERNS ELSE <<>>)
        \o (IF c.exclude_patterns.some THEN c.exclude_patterns.patterns ELSE <<>>)

PathTestsXRs == <<"t", "e", "s", "t", "s", "/", "x", ".", "r", "s">>

\* the values of --include and of --exclude that are tried
IncludeOptions == {None, Some(<<GlobStarMd>>), Some(<<GlobStarRs>>),
                   Some(<<GlobStarPy, GlobDeepJs>>)}
ExcludeOptions == {None, Some(<<GlobStarMd>>)}

CliPaths == PathFixtures \cup {FileA, FileB, PathTestsXRs}

InitCli ==
    /\ pc = "main"
    /\ glob = <<>> /\ regex = <<>> /\ matched = FALSE
    /\ path \in CliPaths
    /\ include_patterns = <<>> /\ exclude_patterns = <<>>
    /\ include_merge_commits = FALSE /\ repo_valid = TRUE /\ err = "none"
    /\ NoWalk /\ objects = NoObjects /\ NoHistory
    /\ \E inc \in IncludeOptions, exc \in ExcludeOptions,
          ndi \in BOOLEAN, nde \in BOOLEAN, merges \in BOOLEAN :
         cli = [top |-> 10, format |-> "json",
                include_patterns |-> inc, exclude_patterns |-> exc,
                no_default_includes |-> ndi, no_default_excludes |-> nde,
                include_merges |-> merges]
    /\ top_hotspots = <<>>

\* main: HotspotAnalyzer::new(&cli.repo, cli.time_window,
\* cli.get_include_patterns(), cli.get_exclude_patterns(), cli.include_merges)
MainNew ==
    /\ pc = "main"
    /\ LET inc == CompileAll(get_include_patterns(cli))
           exc == CompileAll(get_exclude_patterns(cli))
       IN  IF ~AllCompiled(inc) \/ ~AllCompiled(exc)
           THEN /\ pc' = "failed"
                /\ err' = "InvalidPattern"
                /\ UNCHANGED <<include_patterns, exclude_patterns,
                               include_merge_commits>>
           ELSE /\ pc' = "filter"
                /\ err' = "none"
                /\ include_patterns' = inc
                /\ exclude_patterns' = exc
                /\ include_merge_commits' = cli.include_merges
    /\ UNCHANGED <<glob_vars, repo_valid, walk_vars, fold_vars,
                   objects, graph_vars, cli_vars>>

NextCli == MainNew \/ FilterPath

SpecCli == InitCli /\ [][NextCli]_vars

----------------------------------------------------------------------------
(* main's output step as a function of its inputs: the metrics analyze     *)
(* returned, --top and --format                                            *)

\* f64 <, on scores coef * sqrt(rad) with coef >= 0
ScoreLess(x, y) ==
    x.coef[1] * x.coef[1] * x.rad * y.coef[2] * y.coef[2]
        < y.coef[1] * y.coef[1] * y.rad * x.coef[2] * x.coef[2]

\* whether the comparator orders a strictly before b: by falling score for
\* b.partial_cmp(a), by rising score for a.partial_cmp(b)
Before(a, b, falling) ==
    IF falling THEN ScoreLess(b.hotspot_score, a.hotspot_score)
    ELSE ScoreLess(a.hotspot_score, b.hotspot_score)

\* the place a stable sort gives x in a sorted vector: before the first element
\* that must come after it
RECURSIVE InsertStable(_, _, _, _)
InsertStable(sorted, x, k, falling) ==
    IF k > Len(sorted) \/ Before(x, sorted[k], falling)
    THEN SubSeq(sorted, 1, k - 1) \o <<x>> \o SubSeq(sorted, k, Len(sorted))
    ELSE InsertStable(sorted, x, k + 1, falling)

RECURSIVE SortStable(_, _, _, _)
SortStable(sorted, v, n, falling) ==
    IF n > Len(v) THEN sorted
    ELSE SortStable(InsertStable(sorted, v[n], 1, falling), v, n + 1, falling)

\* a plausible slip: the comparison is a.partial_cmp(b), an ascending sort
sort_by_score_ascending(v) == SortStable(<<>>, v, 1, FALSE)

\* hotspots.sort_by(|a, b| b.hotspot_score.partial_cmp(&a.hotspot_score).unwrap())
sort_by_score(v) == SortStable(<<>>, v, 1, TRUE)

\* into_iter().take(n).collect()
take(v, n) == SubSeq(v, 1, IF n < Len(v) THEN n ELSE Len(v))

\* the orders in which a HashMap can hand out its keys
Orders(S) == {q \in [1..Cardinality(S) -> S] : \A a \in S : \E n \in DOMAIN q : q[n] = a}

Stats(counts, revs) ==
    [revisions |-> revs, authors |-> DOMAIN counts, author_commits |-> counts]

\* per-file statistics of the unit tests, and two files with a single author
OutputStats ==
    {Stats(("dev1" :> 7) @@ ("dev2" :> 3), 10),
     Stats(("dev1" :> 5) @@ ("dev2" :> 3) @@ ("dev3" :> 2), 10),
     Stats(("dev1" :> 2) @@ ("dev2" :> 2), 4),
     Stats(("dev1" :> 5), 5),
     Stats(("dev1" :> 1), 1)}

OutputPaths == {FileA, FileB, TestPath}

Formats == {"json", "csv", "xml"}

InitOutput ==
    /\ pc = "done"
    /\ glob = <<>> /\ regex = <<>> /\ path = <<>> /\ matched = FALSE
    /\ include_patterns = <<>> /\ exclude_patterns = <<>>
    /\ include_merge_commits = FALSE /\ repo_valid = TRUE /\ err = "none"
    /\ visited = 0 /\ cur = NoCommit /\ changed = <<>> /\ commits = <<>>
    /\ fold_ci = 1 /\ fold_fi = 1
    /\ \E P \in SUBSET OutputPaths : file_stats \in [P -> OutputStats]
    /\ metrics = [p \in DOMAIN file_stats |-> into_metrics(file_stats[p], p)]
    /\ objects = NoObjects /\ NoHistory
    /\ \E t \in 0..MaxTop, f \in Formats :
         cli = [NoCli EXCEPT !.top = t, !.format = f]
    /\ top_hotspots = <<>>

\* main: sort_by, take(cli.top), then the output in the format asked for
MainOutput ==
    /\ pc = "done"
    /\ \E order \in Orders(DOMAIN metrics) :
         LET hotspots == [n \in 1..Cardinality(DOMAIN metrics) |-> metrics[order[n]]]
         IN  top_hotspots' = take(sort_by_score(hotspots), cli.top)
    /\ IF cli.format \in {"json", "csv"}
       THEN pc' = "printed" /\ err' = "none"
       ELSE pc' = "failed" /\ err' = "UnsupportedFormat"
    /\ UNCHANGED <<glob_vars, repo_vars, walk_vars, fold_vars,
                   objects, graph_vars, cli>>

NextOutput == MainOutput

SpecOutput == InitOutput /\ [][NextOutput]_vars

----------------------------------------------------------------------------
(* get_commits_since on a given history.  The commits are 1..MaxCommits,   *)
(* HEAD is commit 1 and a parent has a larger number than its child; the   *)
(* timestamps are free, so a parent can be newer than its child.  The      *)
(* revwalk starts from HEAD and, sorted by time, yields the newest commit  *)
(* it has queued, queueing the parents of what it yields.                  *)

HeadCommit == 1

CommitIds == 1..MaxCommits

\* the parent lists a commit can have: none, one, or two different parents
ParentLists(id) ==
    {q \in SeqsUpTo((id + 1)..MaxCommits, 2) : Len(q) = 2 => q[1] # q[2]}

\* the tree and the author of each commit of the history
TreeOf(id) ==
    [f \in Files |->
        IF f = FileB THEN (IF id = HeadCommit THEN "blob1" ELSE "absent")
        ELSE IF id % 2 = 1 THEN "blob1" ELSE "blob2"]
AuthorNameOf(id) == IF id % 2 = 1 THEN "alice" ELSE NoName

Histories ==
    {h \in [CommitIds -> [time : Times,
                          parents : UNION {ParentLists(i) : i \in CommitIds}]] :
        \A i \in CommitIds : h[i].parents \in ParentLists(i)}

InitWalk ==
    /\ pc = "walk"
    /\ glob = <<>> /\ regex = <<>> /\ path = <<>> /\ matched = FALSE
    /\ include_patterns = <<>> /\ exclude_patterns = <<>>
    /\ include_merge_commits \in BOOLEAN
    /\ repo_valid = TRUE /\ err = "none"
    /\ NoWalk /\ objects = NoObjects /\ NoMain
    /\ history \in Histories
    /\ pending = {HeadCommit} /\ seen = {HeadCommit} /\ considered = {}

\* a plausible slip: the loop is left at the first commit older than the cutoff
SkipOldBreak(queue) == {}

\* continue: the loop goes on with what the revwalk still holds
SkipOld(queue) == queue

\* one pass of  for oid in revwalk { ... }  on the history
WalkNext ==
    /\ pc = "walk"
    /\ \E id \in pending :
         /\ \A other \in pending : history[other].time <= history[id].time
         /\ LET c == history[id]
                parents == {c.parents[k] : k \in 1..Len(c.parents)}
                queue == (pending \ {id}) \cup (parents \ seen)
                r == get_changed_files(
                         [tree |-> [ok |-> TRUE, tree |-> TreeOf(id)],
                          parents |-> [k \in 1..Len(c.parents) |->
                                          [ok |-> TRUE, tree |-> TreeOf(c.parents[k])]],
                          diff_ok |-> TRUE])
                keep(f) == should_include_file(include_patterns, exclude_patterns, f)
                files == SelectSeq(r.files, keep)
            IN  /\ cur' = [time |-> c.time, parent_count |-> Len(c.parents),
                           author |-> AuthorNameOf(id)]
                /\ seen' = seen \cup parents
                /\ visited' = visited + 1
                /\ IF TooOld(c.time, Since)
                   THEN /\ pending' = SkipOld(queue)
                        /\ UNCHANGED <<considered, commits>>
                   ELSE /\ pending' = queue
                        /\ considered' = considered \cup {id}
                        /\ IF SkippedAsMerge(include_merge_commits, Len(c.parents))
                           THEN commits' = commits
                           ELSE IF files # <<>>
                           THEN commits' = Append(commits,
                                                  [author |-> AuthorOf(AuthorNameOf(id)),
                                                   files |-> files])
                           ELSE commits' = commits
    /\ UNCHANGED <<pc, glob_vars, repo_vars, err, changed, fold_vars, objects,
                   history, cli_vars>>

\* the revwalk has nothing left: Ok(commits)
WalkExhausted ==
    /\ pc = "walk"
    /\ pending = {}
    /\ history # <<>>
    /\ pc' = "fold"
    /\ UNCHANGED <<glob_vars, repo_vars, err, walk_vars, fold_vars,
                   objects, graph_vars, cli_vars>>

NextWalk == WalkNext \/ WalkExhausted \/ FoldStep \/ Finalize

SpecWalk == InitWalk /\ [][NextWalk]_vars

----------------------------------------------------------------------------
(* analyze's two loops and its final map, as a function of the records *)

RECURSIVE FoldFiles(_, _, _, _)
FoldFiles(fs, author, files, k) ==
    IF k > Len(files) THEN fs
    ELSE FoldFiles(FoldUpdate(fs, author, files[k]), author, files, k + 1)

RECURSIVE FoldAll(_, _, _)
FoldAll(fs, records, n) ==
    IF n > Len(records) THEN fs
    ELSE FoldAll(FoldFiles(fs, records[n].author, records[n].files, 1), records, n + 1)

MetricsOf(records) ==
    LET fs == FoldAll(<<>>, records, 1)
    IN  [p \in DOMAIN fs |-> into_metrics(fs[p], p)]

----------------------------------------------------------------------------
(* Properties *)

NoSlash(p) == \A n \in 1..Len(p) : p[n] # "/"

EndsWith(p, suffix) ==
    /\ Len(p) >= Len(suffix)
    /\ \A n \in 1..Len(suffix) : p[Len(p) - Len(suffix) + n] = suffix[n]

Contains(record, p) == \E k \in 1..Len(record.files) : record.files[k] = p

\* C1 (SpecGlob): the glob **/*.js matches the top-level path x.js as well as
\* the nested paths a/x.js and a/b/x.js.
C1_DeepGlobMatchesEveryDepth ==
    (pc = "matched" /\ glob = GlobDeepJs /\ path \in {PathXJs, PathAXJs, PathABXJs})
        => matched

\* C2 (SpecGlob): for every path, the glob *.py matches it iff the path has no
\* '/' and ends in ".py".
C2_StarPyWholePathOneSegment ==
    (pc = "matched" /\ glob = GlobStarPy)
        => (matched <=> (NoSlash(path) /\ EndsWith(path, <<".", "p", "y">>)))

C2_Witness ==
    /\ pc = "matched" /\ glob = GlobStarPy
    /\ path = PathAPyBak /\ ~matched

\* C3 (SpecFilter): should_include_file is false when an exclude pattern matches
\* the path, whatever the include patterns match; otherwise true when the include
\* list is empty; otherwise true iff some include pattern matches.
C3_ExcludeFirstThenInclude ==
    pc = "filtered" =>
        LET excluded == \E n \in 1..Len(exclude_patterns) :
                            is_match(exclude_patterns[n], path)
            included == \E n \in 1..Len(include_patterns) :
                            is_match(include_patterns[n], path)
        IN  /\ excluded => ~matched
            /\ (~excluded /\ Len(include_patterns) = 0) => matched
            /\ (~excluded /\ Len(include_patterns) > 0) => (matched <=> included)

C3_Witness ==
    /\ pc = "filtered" /\ ~matched
    /\ \E n \in 1..Len(exclude_patterns) : is_match(exclude_patterns[n], path)
    /\ \E n \in 1..Len(include_patterns) : is_match(include_patterns[n], path)

\* C4 (Spec): with include_merge_commits false, a commit with more than one
\* parent is skipped at the merge check whatever it changes, every record pushed
\* comes from a commit with at most one parent, and the file statistics are the
\* fold of those records alone.
C4_MergeCommitsNeverCounted ==
    /\ [][~include_merge_commits =>
            /\ (pc = "check" /\ cur.parent_count > 1)
                   => (pc' = "walk" /\ commits' = commits)
            /\ (commits' # commits)
                   => (pc = "record" /\ cur.parent_count <= 1)]_vars
    /\ [](pc = "done" => file_stats = FoldAll(<<>>, commits, 1))

C4_Witness ==
    /\ pc = "walk" /\ ~include_merge_commits
    /\ visited = 1 /\ cur.parent_count = 2 /\ cur.time >= Since
    /\ commits = <<>>

\* C5 (Spec): the cutoff skips exactly the commits with timestamp < since: such
\* a commit never yields a record, a commit with timestamp >= since (the cutoff
\* itself included) passes the cutoff, and every record pushed comes from a
\* commit with timestamp >= since.
C5_CutoffIsStrict ==
    [][/\ (pc = "check" /\ cur.time < Since)
              => (pc' = "walk" /\ commits' = commits)
       /\ (pc = "check" /\ cur.time >= Since
              /\ (include_merge_commits \/ cur.parent_count <= 1))
              => pc' = "diff"
       /\ (commits' # commits) => cur.time >= Since]_vars

C5_Witness ==
    /\ pc = "walk" /\ visited = 1 /\ cur.time = Since
    /\ Len(commits) = 1 /\ commits[1].author = AuthorOf(cur.author)

\* C6 (Spec): after the fold, a file's revisions equals the number of records
\* that contain its path, also when a record lists the path more than once.
C6_OneRevisionPerRecord ==
    pc = "done" =>
        \A p \in DOMAIN file_stats :
            file_stats[p].revisions
                = Cardinality({n \in 1..Len(commits) : Contains(commits[n], p)})

\* C7 (SpecMetrics): with total = the sum of the per-author counts > 0 and max the
\* largest of them, main_contributor_percentage = 100*max/total,
\* knowledge_distribution = 1 - max/total and hotspot_score = revisions *
\* sqrt(number of authors) * knowledge_distribution; counts [7,3] with 10
\* revisions give 70, 0.3 and 10*sqrt(2)*0.3 (= 3*sqrt(2)), counts [2,2] give 50
\* and 0.5; with total = 0 the three values are 0.
C7_MetricsFormulas ==
    pc = "done" =>
        LET stats == file_stats[TestPath]
            m == metrics[TestPath]
            counts == stats.author_commits
            total == SumValues(counts, DOMAIN counts)
            max == CHOOSE v \in {0} \cup {counts[a] : a \in DOMAIN counts} :
                       \A a \in DOMAIN counts : counts[a] <= v
            pct == m.main_contributor_percentage
            kd == m.knowledge_distribution
            hs == m.hotspot_score
            authors == Cardinality(stats.authors)
        IN  /\ total > 0 =>
                /\ pct[1] * total = 100 * max * pct[2]
                /\ kd[1] * total = (total - max) * kd[2]
                \* hs^2 = revisions^2 * authors * kd^2, both sides being >= 0
                /\ hs.coef[1] >= 0
                /\ hs.coef[1] * hs.coef[1] * hs.rad * total * total
                       = stats.revisions * stats.revisions * authors
                             * (total - max) * (total - max)
                             * hs.coef[2] * hs.coef[2]
            /\ total = 0 =>
                /\ pct = <<0, 1>>
                /\ kd = <<0, 1>>
                /\ hs.coef = <<0, 1>>
            /\ (DOMAIN counts = {"dev1", "dev2"} /\ counts["dev1"] = 7
                    /\ counts["dev2"] = 3 /\ stats.revisions = 10) =>
                /\ pct = <<70, 1>>
                /\ kd = <<3, 10>>
                /\ hs = [coef |-> <<3, 1>>, rad |-> 2]
            /\ (DOMAIN counts = {"dev1", "dev2"} /\ counts["dev1"] = 2
                    /\ counts["dev2"] = 2) =>
                /\ pct = <<50, 1>>
                /\ kd = <<1, 2>>

C7_Witness ==
    /\ pc = "done"
    /\ DOMAIN file_stats[TestPath].author_commits = {"dev1", "dev2"}
    /\ file_stats[TestPath].author_commits["dev1"] = 7
    /\ file_stats[TestPath].author_commits["dev2"] = 3
    /\ file_stats[TestPath].revisions = 10
    /\ metrics[TestPath].main_contributor_percentage = <<70, 1>>

\* C8 (SpecMetrics): a file all of whose counted commits have one author gets
\* main_contributor_percentage = 100, knowledge_distribution = 0 and
\* hotspot_score = 0, for every revision count N > 0.
C8_SingleAuthorScoresZero ==
    pc = "done" =>
        LET stats == file_stats[TestPath]
            m == metrics[TestPath]
        IN  (/\ Cardinality(DOMAIN stats.author_commits) = 1
             /\ \A a \in DOMAIN stats.author_commits : stats.author_commits[a] > 0
             /\ stats.revisions > 0) =>
                /\ m.main_contributor_percentage = <<100, 1>>
                /\ m.knowledge_distribution = <<0, 1>>
                /\ m.hotspot_score = [coef |-> <<0, 1>>, rad |-> 1]
                /\ m.revisions = stats.revisions
                /\ m.author_count = 1

C8_Witness ==
    /\ pc = "done"
    /\ DOMAIN file_stats[TestPath].author_commits = {"dev1"}
    /\ file_stats[TestPath].author_commits["dev1"] = MaxCount
    /\ file_stats[TestPath].revisions = MaxCount
    /\ metrics[TestPath].knowledge_distribution = <<0, 1>>

\* C9 (Spec): the metrics analyze returns are those of every permutation of the
\* commit records: folding the records in another order gives the same
\* FileMetrics for every path.
C9_OrderOfRecordsIrrelevant ==
    pc = "done" =>
        \A perm \in Permutations(1..Len(commits)) :
            MetricsOf([n \in 1..Len(commits) |-> commits[perm[n]]]) = metrics

C9_Witness ==
    /\ pc = "done"
    /\ Len(commits) >= 2
    /\ commits[1].author # commits[2].author
    /\ Contains(commits[1], FileA) /\ Contains(commits[2], FileA)
    /\ metrics[FileA].author_count = 2

PathsOf(files) == {files[k] : k \in 1..Len(files)}

\* C11 (SpecDiff): no repository-access failure is swallowed: when the commit's
\* tree, its first parent (or that parent's tree) or the diff cannot be read,
\* the walk ends in an error and no record is built from the commit.
C11_NoAccessFailureSwallowed ==
    LET unreadable == \/ ~objects.tree.ok
                      \/ Len(objects.parents) >= 1 /\ ~objects.parents[1].ok
                      \/ ~objects.diff_ok
    IN  (pc # "diff" /\ unreadable)
            => (pc = "failed" /\ err # "none" /\ commits = <<>>)

\* C12 (Spec): an accepted commit whose changed files are all rejected by the
\* filter pushes no record; every record has a non-empty file list of paths that
\* should_include_file accepts; and after the fold a file's author set holds
\* only the authors of records that list the file.
C12_NoRecordWithoutIncludedFile ==
    /\ [][(pc = "record"
             /\ \A k \in 1..Len(changed) :
                    ~should_include_file(include_patterns, exclude_patterns,
                                         changed[k]))
              => (commits' = commits /\ pc' = "walk")]_vars
    /\ [](\A n \in 1..Len(commits) :
             /\ commits[n].files # <<>>
             /\ \A k \in 1..Len(commits[n].files) :
                    should_include_file(include_patterns, exclude_patterns,
                                        commits[n].files[k]))
    /\ [](pc = "done" =>
             \A p \in DOMAIN file_stats :
                 file_stats[p].authors
                     = {commits[n].author :
                            n \in {i \in 1..Len(commits) : Contains(commits[i], p)}})

C12_Witness ==
    /\ pc = "record"
    /\ changed = <<FileB>>
    /\ ~should_include_file(include_patterns, exclude_patterns, FileB)
    /\ Len(commits) = 1 /\ commits[1].files = <<FileA>>

\* C13 (SpecOutput): what main writes out is in non-increasing hotspot_score
\* order, holds exactly min(top, number of analyzed files) metrics, each the
\* FileMetrics of a different analyzed file, and no file left out has a higher
\* score than a file written out.
C13_TopNByScoreDescending ==
    pc = "printed" =>
        LET n == Cardinality(DOMAIN metrics)
            out == top_hotspots
            written == {out[i].path : i \in 1..Len(out)}
        IN  /\ Len(out) = IF cli.top < n THEN cli.top ELSE n
            /\ \A i \in 1..Len(out) :
                   out[i].path \in DOMAIN metrics /\ out[i] = metrics[out[i].path]
            /\ Cardinality(written) = Len(out)
            /\ \A i, j \in 1..Len(out) :
                   i < j => ~ScoreLess(out[i].hotspot_score, out[j].hotspot_score)
            /\ \A p \in DOMAIN metrics \ written : \A i \in 1..Len(out) :
                   ~ScoreLess(out[i].hotspot_score, metrics[p].hotspot_score)

C13_Witness ==
    /\ pc = "printed" /\ cli.top = 2
    /\ Cardinality(DOMAIN metrics) = 3
    /\ Len(top_hotspots) = 2
    /\ ScoreLess(top_hotspots[2].hotspot_score, top_hotspots[1].hotspot_score)
    /\ \E p \in DOMAIN metrics :
          /\ p # top_hotspots[1].path /\ p # top_hotspots[2].path
          /\ ScoreLess(metrics[p].hotspot_score, top_hotspots[2].hotspot_score)

\* C14 (Spec): every FileMetrics analyze returns has knowledge_distribution in
\* [0, 1) and main_contributor_percentage in (0, 100], and its
\* knowledge_distribution is 0 exactly when one author made all the commits
\* counted for the file.
C14_MetricRanges ==
    pc = "done" =>
        \A p \in DOMAIN metrics :
            LET kd == metrics[p].knowledge_distribution
                pct == metrics[p].main_contributor_percentage
                counts == file_stats[p].author_commits
            IN  /\ kd[2] > 0 /\ 0 <= kd[1] /\ kd[1] < kd[2]
                /\ pct[2] > 0 /\ 0 < pct[1] /\ pct[1] <= 100 * pct[2]
                /\ (kd[1] = 0) <=> (Cardinality(DOMAIN counts) = 1)

C14_Witness ==
    /\ pc = "done"
    /\ FileA \in DOMAIN metrics
    /\ metrics[FileA].knowledge_distribution = <<1, 3>>
    /\ FileB \in DOMAIN metrics
    /\ metrics[FileB].knowledge_distribution = <<0, 1>>
    /\ metrics[FileB].main_contributor_percentage = <<100, 1>>

\* C15 (SpecCli): when --include patterns are given without
\* --no-default-includes, only paths matching one of the given patterns are
\* analyzed: the default include patterns play no part.
C15_UserIncludesReplaceDefaults ==
    (pc = "filtered" /\ cli.include_patterns.some /\ ~cli.no_default_includes
         /\ matched)
        => AnyMatch(CompileAll(cli.include_patterns.patterns), path)

\* C16 (SpecDiff): for a commit whose tree, first parent and diff are readable,
\* the changed files are the paths whose entry differs between the commit's
\* tree and its first parent's tree, whatever the other parents hold; for a
\* commit without parents they are the paths present in its tree.
C16_DiffAgainstFirstParentOnly ==
    (pc = "record" /\ (Len(objects.parents) >= 1 => objects.parents[1].ok)) =>
        LET tree == objects.tree.tree
        IN  IF Len(objects.parents) >= 1
            THEN PathsOf(changed)
                     = {f \in Files : tree[f] # objects.parents[1].tree[f]}
            ELSE PathsOf(changed) = {f \in Files : tree[f] # "absent"}

C16_Witness ==
    /\ pc = "record"
    /\ Len(objects.parents) = 2
    /\ objects.parents[1].ok /\ objects.parents[2].ok
    /\ objects.parents[2].tree = objects.tree.tree
    /\ objects.parents[1].tree[FileA] = objects.tree.tree[FileA]
    /\ objects.parents[1].tree[FileB] # objects.tree.tree[FileB]
    /\ changed = <<FileB>>

\* C17 (Spec): throughout the fold and at its end, every path of the map has
\* revisions >= 1, revisions equal to the sum of its per-author counts, its
\* author set equal to the key set of the per-author counts, every per-author
\* count >= 1, and no more authors than revisions.
C17_FoldInvariant ==
    \A p \in DOMAIN file_stats :
        LET stats == file_stats[p]
            counts == stats.author_commits
        IN  /\ stats.revisions >= 1
            /\ stats.revisions = SumValues(counts, DOMAIN counts)
            /\ stats.authors = DOMAIN counts
            /\ \A a \in DOMAIN counts : counts[a] >= 1
            /\ Cardinality(stats.authors) <= stats.revisions

C17_Witness ==
    /\ pc = "fold" /\ fold_ci = 3 /\ Len(commits) = 3
    /\ FileA \in DOMAIN file_stats
    /\ file_stats[FileA].revisions = 3
    /\ Cardinality(file_stats[FileA].authors) = 2
    /\ FileB \in DOMAIN file_stats
    /\ file_stats[FileB].revisions = 1

\* the commits reachable from the commits of S along parent links
RECURSIVE ReachableFrom(_, _)
ReachableFrom(h, S) ==
    LET next == S \cup UNION {{h[i].parents[k] : k \in 1..Len(h[i].parents)} : i \in S}
    IN  IF next = S THEN S ELSE ReachableFrom(h, next)

\* C18 (SpecWalk): the walk skips a commit older than the cutoff and goes on:
\* when it returns, every commit reachable from HEAD with timestamp >= since has
\* passed the cutoff check, also one that is reachable only through commits
\* older than the cutoff; and nothing else has.
C18_WalkSkipsButDoesNotStop ==
    pc \in {"fold", "done"} =>
        considered = {id \in ReachableFrom(history, {HeadCommit}) :
                         history[id].time >= Since}

C18_Witness ==
    /\ pc = "fold"
    /\ history[1].parents = <<2>> /\ history[2].parents = <<3>>
    /\ history[1].time < Since /\ history[2].time < Since
    /\ history[3].time >= Since
    /\ 3 \in considered
    /\ Len(commits) = 1 /\ commits[1].files = <<FileA>>

\* C19 (Spec): every FileMetrics analyze returns has hotspot_score > 0 iff
\* author_count >= 2, and hotspot_score = 0 iff author_count = 1; a commit whose
\* author name is absent is recorded under the name "unknown", the same name for
\* all such commits.
C19_ScorePositiveIffSeveralAuthors ==
    /\ [](pc = "done" =>
             \A p \in DOMAIN metrics :
                 LET m == metrics[p]
                 IN  /\ m.author_count >= 1
                     /\ (m.hotspot_score.coef[1] > 0) <=> (m.author_count >= 2)
                     /\ (m.hotspot_score.coef[1] = 0) <=> (m.author_count = 1))
    /\ [][(commits' # commits /\ cur.author = NoName)
              => commits'[Len(commits')].author = "unknown"]_vars

C19_Witness ==
    /\ pc = "done"
    /\ Len(commits) = 3
    /\ FileA \in DOMAIN metrics /\ FileB \in DOMAIN metrics
    /\ file_stats[FileA].authors = {"alice", "unknown"}
    /\ metrics[FileA].hotspot_score.coef[1] > 0
    /\ file_stats[FileB].authors = {"unknown"}
    /\ file_stats[FileB].revisions >= 2
    /\ metrics[FileB].hotspot_score.coef[1] = 0

====
